---- MODULE Spec2Model ----
(***************************************************************************)
(* A model of clue.py: the global-hotkey listener (ClueApp.run), the       *)
(* capture -> notify -> analyze -> display pipeline that every hotkey      *)
(* starts on its own thread (ClueApp.on_hotkey), the OAuth token refresh   *)
(* of the gauth backend (ClueApp._refresh_gauth_token), the tkinter UI     *)
(* context (ResponseWindow) and the markdown renderer                      *)
(* (ResponseWindow._render_markdown / _render_inline).                     *)
(*                                                                         *)
(* Six specifications share the variables:                                 *)
(*   SpecKeys  the key listener: on_press / on_release over physical keys  *)
(*   Spec      the pipeline: threads started by on_hotkey, temporary files *)
(*             and the UI context, with a backend that sends one request   *)
(*   SpecAuth  the gauth backend: concurrent calls of _analyze_gauth, the  *)
(*             credential, the credential file and the clock               *)
(*   SpecRun   one run on any backend, from the hotkey to its last display *)
(*   SpecHide  the display surfaces: show, show_notification, hide, _hide  *)
(*   SpecMd    the renderer: _render_markdown run line by line on an input *)
(***************************************************************************)
EXTENDS Integers, Sequences, FiniteSets, TLC

----------------------------------------------------------------------------
(* Bounds of the model *)

\* number of pipeline threads that a behaviour starts
MaxRuns == 2
\* number of times the wall clock advances
MaxTicks == 1
\* number of lines of a rendered response
MaxLines == 3
\* number of parts of a generateContent response
MaxParts == 2

----------------------------------------------------------------------------
(* Program constants *)

\* the clock advances in steps of one second, counted in milliseconds
MsPerSecond == 1000
\* tokens.get('expires_in', 3600)
DefaultExpiresIn == 3600

VARIABLES
  \* ---- key listener (ClueApp.run) ----
  held,           \* physical keys that are down
  cmd_pressed,    \* self.cmd_pressed
  shift_pressed,  \* self.shift_pressed
  lastKey,        \* the last key event delivered and whether it called on_hotkey
  \* ---- pipeline (ClueApp.on_hotkey.process) ----
  started,        \* number of threads started by on_hotkey
  run,            \* per thread: position and locals of process()
  root,           \* self.window.root is not None
  uiQueue,        \* callbacks posted with root.after(0, ...), in order
  notifVisible,   \* the notification toast is showing
  display,        \* what the response window shows
  shown,          \* per thread: the set of terminal displays shown for it
  tmpFiles,       \* temporary files on storage, named by the creating thread
  \* ---- gauth credential ----
  now,            \* time.time() in milliseconds
  backend,        \* self.backend
  cred,           \* self.gauth_credentials
  credFile,       \* contents of credentials.json
  issued,         \* history: per token, the expiry computed with it
  \* ---- renderer ----
  lines,          \* content.split('\n')
  i,              \* loop index of _render_markdown
  in_code_block,
  code_buffer,
  segments,       \* the (text, tag) pairs inserted into the text widget
  \* ---- display surfaces ----
  notification,   \* the NotificationWindow: "none" (no object), "new" (an object
                  \* whose window is None) or "window" (its Toplevel exists)
  visible,        \* the response window is deiconified
  lastCall        \* history: the last method called on a display surface

keyVars == <<held, cmd_pressed, shift_pressed, lastKey>>
pipeVars == <<root, uiQueue, notifVisible, display, shown, tmpFiles>>
credVars == <<now, backend, cred, credFile, issued>>
mdVars == <<lines, i, in_code_block, code_buffer, segments>>
surfVars == <<notification, visible, lastCall>>
vars == <<keyVars, started, run, pipeVars, credVars, mdVars, surfVars>>

----------------------------------------------------------------------------
(* Strings are sequences of one-character strings; inputs are drawn from    *)
(* the sequences over a pool                                                *)

NL == "\n"

\* '\n'.join(buf)
RECURSIVE join(_)
join(buf) ==
  IF buf = <<>> THEN <<>>
  ELSE IF Len(buf) = 1 THEN buf[1]
  ELSE buf[1] \o <<NL>> \o join(Tail(buf))

\* the sequences over S of length at most n
RECURSIVE SeqsUpTo(_, _)
SeqsUpTo(S, n) ==
  IF n = 0 THEN {<<>>}
  ELSE SeqsUpTo(S, n - 1) \cup
       {Append(q, x) : q \in {q \in SeqsUpTo(S, n - 1) : Len(q) = n - 1}, x \in S}

----------------------------------------------------------------------------
(* Threads of process(): position and locals *)

NoTime == -1
NoToken == -1
NoTokens == [status |-> "none", has_token |-> FALSE, expires_in |-> 0]

\* a str value, the value None, and a local that is not assigned yet
Str(text) == [kind |-> "str", text |-> text]
None == [kind |-> "None", text |-> <<>>]
Unset == [kind |-> "unset", text |-> <<>>]

\* no generateContent response received
NoBody == [candidates |-> FALSE, parts |-> <<>>]

IdleRun ==
  [ pc |-> "idle",           \* position in process()
    image_path |-> FALSE,    \* capture_screenshot returned a path
    err |-> "",              \* the exception caught at line 643
    current_time |-> NoTime, \* local of _refresh_gauth_token
    tokens |-> NoTokens,     \* local of _refresh_gauth_token: the refresh response
    access_token |-> NoToken,\* local of _analyze_gauth
    expiredAtCall |-> FALSE, \* history: the token was expired when _analyze_gauth
                             \* began; kept until the comparison at line 477
    checked |-> "",          \* history: what the comparison at line 477 found
    notified |-> FALSE,      \* history: the "Analyzing..." callback was posted
    refreshes |-> 0,         \* history: refresh requests issued
    generates |-> 0,         \* history: analyze requests issued
    unlinks |-> 0,           \* history: os.unlink calls that removed the file
    wrote |-> FALSE,         \* history: json.dump to the credential file finished
    posts |-> <<>>,          \* history: terminal displays posted, in order
    caller |-> "",           \* history: the thread that called on_hotkey
    captures |-> 0,          \* history: calls of capture_screenshot
    absent |-> FALSE,        \* history: the provider answered without a completion
    body |-> NoBody,         \* history: the generateContent response received
    response |-> Unset ]     \* local of process(): what analyze_image returned

Runs == 1..MaxRuns

\* ClueApp.on_hotkey: start a daemon thread running process(); its caller is
\* on_press, which pynput runs on the thread of keyboard.Listener
on_hotkey ==
  /\ started < MaxRuns
  /\ started' = started + 1
  /\ run' = [run EXCEPT ![started + 1].pc = "capture",
                        ![started + 1].caller = "listener"]

----------------------------------------------------------------------------
(* The key listener: ClueApp.run.on_press / on_release *)

CmdKeys == {"cmd", "cmd_r"}
ShiftKeys == {"shift", "shift_r"}
\* "f" and "x" are character keys; "esc" is a special key with no char attribute
Keys == CmdKeys \cup ShiftKeys \cup {"f", "x", "esc"}

HasChar(key) == key \in {"f", "x"}
Char(key) == key

NoKey == [kind |-> "none", key |-> "none", fired |-> FALSE]

\* the action key with both flags set calls on_hotkey
Fires(key) == HasChar(key) /\ Char(key) = "f" /\ cmd_pressed /\ shift_pressed

\* on_press without the hasattr test of line 681: key.char of a special key
\* raises AttributeError in the listener
on_press_without_hasattr(key) ==
  /\ held' = held \cup {key}
  /\ IF key \in CmdKeys
       THEN /\ cmd_pressed' = TRUE
            /\ UNCHANGED <<shift_pressed, started, run>>
       ELSE IF key \in ShiftKeys
         THEN /\ shift_pressed' = TRUE
              /\ UNCHANGED <<cmd_pressed, started, run>>
         ELSE IF Fires(key)
           THEN /\ on_hotkey
                /\ UNCHANGED <<cmd_pressed, shift_pressed>>
           ELSE UNCHANGED <<cmd_pressed, shift_pressed, started, run>>
  /\ lastKey' = [kind |-> IF HasChar(key) THEN "down" ELSE "raised", key |-> key,
                 fired |-> Fires(key)]
  /\ UNCHANGED <<pipeVars, credVars, mdVars, surfVars>>

on_press(key) ==
  /\ held' = held \cup {key}
  /\ IF key \in CmdKeys
       THEN /\ cmd_pressed' = TRUE
            /\ UNCHANGED <<shift_pressed, started, run>>
       ELSE IF key \in ShiftKeys
         THEN /\ shift_pressed' = TRUE
              /\ UNCHANGED <<cmd_pressed, started, run>>
         ELSE IF Fires(key)
           THEN /\ on_hotkey
                /\ UNCHANGED <<cmd_pressed, shift_pressed>>
           ELSE UNCHANGED <<cmd_pressed, shift_pressed, started, run>>
  /\ lastKey' = [kind |-> "down", key |-> key, fired |-> Fires(key)]
  /\ UNCHANGED <<pipeVars, credVars, mdVars, surfVars>>

on_release(key) ==
  /\ key \in held
  /\ held' = held \ {key}
  /\ IF key \in CmdKeys
       THEN /\ cmd_pressed' = FALSE
            /\ UNCHANGED shift_pressed
       ELSE IF key \in ShiftKeys
         THEN /\ shift_pressed' = FALSE
              /\ UNCHANGED cmd_pressed
         ELSE UNCHANGED <<cmd_pressed, shift_pressed>>
  /\ lastKey' = [kind |-> "up", key |-> key, fired |-> FALSE]
  /\ UNCHANGED <<started, run, pipeVars, credVars, mdVars, surfVars>>

\* a key goes down (or auto-repeats while down)
KeyDown == \E key \in Keys : on_press(key)
\* a key that is down goes up
KeyUp == \E key \in Keys : on_release(key)


----------------------------------------------------------------------------
(* The pipeline thread: ClueApp.on_hotkey.process *)

\* on_hotkey called by the listener with both flags set
Trigger ==
  /\ on_hotkey
  /\ UNCHANGED <<keyVars, pipeVars, credVars, mdVars, surfVars>>

\* an exception unwinds to the handler at line 643; the locals of the frames are gone
Raise(r, e) ==
  [run EXCEPT ![r].pc = "except", ![r].err = e, ![r].current_time = NoTime,
              ![r].tokens = NoTokens, ![r].access_token = NoToken]

\* root.after(0, callback)
Post(kind, r) == Append(uiQueue, [kind |-> kind, run |-> r])

CaptureOutcomes == {"ok", "mkstemp_failed", "screencapture_failed"}

\* line 622: image_path = self.capture_screenshot()
capture_screenshot(r) ==
  /\ run[r].pc = "capture"
  /\ \E outcome \in CaptureOutcomes :
       /\ tmpFiles' = IF outcome = "mkstemp_failed" THEN tmpFiles ELSE tmpFiles \cup {r}
       /\ run' = IF outcome = "ok"
                   THEN [run EXCEPT ![r].pc = "notify", ![r].image_path = TRUE,
                                    ![r].captures = run[r].captures + 1]
                   ELSE [Raise(r, "capture") EXCEPT ![r].captures = run[r].captures + 1]
  /\ UNCHANGED <<keyVars, started, root, uiQueue, notifVisible, display, shown,
                 credVars, mdVars, surfVars>>

\* lines 622-633 with the call of line 626 left out
post_notification_left_out(r) ==
  /\ run[r].pc = "notify"
  /\ run' = [run EXCEPT ![r].pc = "analyze"]
  /\ UNCHANGED <<keyVars, started, root, uiQueue, notifVisible, display, shown, tmpFiles,
                 credVars, mdVars, surfVars>>

\* line 626: self.window.root.after(0, show_notification); root None raises
post_notification(r) ==
  /\ run[r].pc = "notify"
  /\ IF root
       THEN /\ uiQueue' = Post("notify", r)
            /\ run' = [run EXCEPT ![r].pc = "analyze", ![r].notified = TRUE]
       ELSE /\ run' = Raise(r, "attribute")
            /\ UNCHANGED uiQueue
  /\ UNCHANGED <<keyVars, started, root, notifVisible, display, shown, tmpFiles,
                 credVars, mdVars, surfVars>>

Expired(t) == ~(t < cred.expires_at)

\* the text of an answer
SomeText == <<"a">>
\* result.get('response', 'No response from Ollama')
NoResponseFromOllama == <<"No response from Ollama">>

\* what the one request of gemini and ollama comes to: an exception, a text, or
\* an answer without a completion (response.text is None for gemini, the
\* default of result.get for ollama)
AnalyzeOutcomes == {"raise", "text", "empty"}

\* line 633: analyze_image; gemini and ollama send one request, gauth reads
\* the image and goes on to _refresh_gauth_token
analyze_image(r) ==
  /\ run[r].pc = "analyze"
  /\ IF backend = "gauth"
       THEN run' = [run EXCEPT ![r].pc = "refresh", ![r].expiredAtCall = Expired(now)]
       ELSE \E outcome \in AnalyzeOutcomes :
              run' = IF outcome = "raise"
                       THEN [Raise(r, "provider") EXCEPT
                                        ![r].generates = run[r].generates + 1]
                       ELSE [run EXCEPT ![r].pc = "show",
                                        ![r].generates = run[r].generates + 1,
                                        ![r].absent = (outcome = "empty"),
                                        ![r].response =
                                          IF outcome = "text" THEN Str(SomeText)
                                          ELSE IF backend = "gemini" THEN None
                                          ELSE Str(NoResponseFromOllama)]
  /\ UNCHANGED <<keyVars, started, pipeVars, credVars, mdVars, surfVars>>

\* lines 475-478: the token is still valid: return it
\* otherwise go on to the refresh request
refresh_check(r) ==
  /\ run[r].pc = "refresh"
  /\ run' = IF now < cred.expires_at
              THEN [run EXCEPT ![r].pc = "generate", ![r].checked = "valid",
                               ![r].expiredAtCall = FALSE,
                               ![r].access_token = cred.access_token]
              ELSE [run EXCEPT ![r].pc = "refresh_request", ![r].current_time = now,
                               ![r].expiredAtCall = FALSE,
                               ![r].checked = "expired"]
  /\ UNCHANGED <<keyVars, started, pipeVars, credVars, mdVars, surfVars>>

\* the token endpoint answers with an error (no connection, a status that is not
\* a success, a body that is not JSON), or with JSON that may lack access_token
\* and expires_in; expires_in 0 stands for an absent expires_in
RefreshResponses ==
  { [status |-> "error", has_token |-> FALSE, expires_in |-> 0],
    [status |-> "ok", has_token |-> FALSE, expires_in |-> 0],
    [status |-> "ok", has_token |-> TRUE, expires_in |-> 0],
    [status |-> "ok", has_token |-> TRUE, expires_in |-> DefaultExpiresIn] }

\* lines 496-503: urlopen the token endpoint and parse the reply
refresh_request(r) ==
  /\ run[r].pc = "refresh_request"
  /\ \E resp \in RefreshResponses :
       run' = IF resp.status = "error"
                THEN [Raise(r, "auth") EXCEPT ![r].refreshes = run[r].refreshes + 1]
                ELSE [run EXCEPT ![r].pc = "set_token", ![r].tokens = resp,
                                 ![r].refreshes = run[r].refreshes + 1]
  /\ UNCHANGED <<keyVars, started, pipeVars, credVars, mdVars, surfVars>>

\* tokens.get('expires_in', 3600)
ExpiresIn(tokens) == IF tokens.expires_in = 0 THEN DefaultExpiresIn ELSE tokens.expires_in

\* current_time + (tokens.get('expires_in', 3600) * 1000)
NewExpiry(r) == run[r].current_time + ExpiresIn(run[r].tokens) * MsPerSecond

\* line 506 with tokens.get('access_token'): the credential is overwritten before
\* the missing token is noticed
set_access_token_unchecked(r) ==
  /\ run[r].pc = "set_token"
  /\ IF run[r].tokens.has_token
       THEN /\ cred' = [cred EXCEPT !.access_token = r]
            /\ issued' = [issued EXCEPT ![r] = NewExpiry(r)]
            /\ run' = [run EXCEPT ![r].pc = "set_expiry"]
       ELSE /\ cred' = [cred EXCEPT !.access_token = NoToken]
            /\ run' = Raise(r, "keyerror")
            /\ UNCHANGED issued
  /\ UNCHANGED <<keyVars, started, pipeVars, now, backend, credFile, mdVars, surfVars>>

\* line 506: self.gauth_credentials['access_token'] = tokens['access_token']
\* the token of thread r's refresh is named r
set_access_token(r) ==
  /\ run[r].pc = "set_token"
  /\ IF run[r].tokens.has_token
       THEN /\ cred' = [cred EXCEPT !.access_token = r]
            /\ issued' = [issued EXCEPT ![r] = NewExpiry(r)]
            /\ run' = [run EXCEPT ![r].pc = "set_expiry"]
       ELSE /\ run' = Raise(r, "keyerror")
            /\ UNCHANGED <<cred, issued>>
  /\ UNCHANGED <<keyVars, started, pipeVars, now, backend, credFile, mdVars, surfVars>>

\* line 507: self.gauth_credentials['expires_at'] = ...
set_expires_at(r) ==
  /\ run[r].pc = "set_expiry"
  /\ cred' = [cred EXCEPT !.expires_at = NewExpiry(r)]
  /\ run' = [run EXCEPT ![r].pc = "open_file"]
  /\ UNCHANGED <<keyVars, started, pipeVars, now, backend, credFile, issued, mdVars, surfVars>>

\* the file just after open(..., 'w'): empty
Truncated == [access_token |-> NoToken, expires_at |-> NoTime]

\* a file holding the text of one writer followed by the tail of another's
Unparsable == -2
Garbled == [access_token |-> Unparsable, expires_at |-> Unparsable]

\* line 510: open(GAUTH_CREDENTIALS_PATH, 'w')
open_credentials(r) ==
  /\ run[r].pc = "open_file"
  /\ credFile' = Truncated
  /\ run' = [run EXCEPT ![r].pc = "dump"]
  /\ UNCHANGED <<keyVars, started, pipeVars, now, backend, cred, issued, mdVars, surfVars>>

\* lines 511-513 without the json.dump: the token is returned, the file stays empty
dump_credentials_unsaved(r) ==
  /\ run[r].pc = "dump"
  /\ run' = [run EXCEPT ![r].pc = "generate", ![r].wrote = TRUE, ![r].access_token = r,
                        ![r].current_time = NoTime, ![r].tokens = NoTokens]
  /\ UNCHANGED <<keyVars, started, pipeVars, now, backend, cred, credFile, issued, mdVars, surfVars>>

\* lines 511-513: json.dump(self.gauth_credentials, f); return tokens['access_token']
\* The text is written from offset 0 when the file is closed. If another thread
\* has written the file since this one truncated it, a shorter text leaves the
\* tail of the longer one behind it.
dump_credentials(r) ==
  /\ run[r].pc = "dump"
  /\ credFile' \in IF credFile \in {Truncated, cred} THEN {cred} ELSE {cred, Garbled}
  /\ run' = [run EXCEPT ![r].pc = "generate", ![r].wrote = TRUE, ![r].access_token = r,
                        ![r].current_time = NoTime, ![r].tokens = NoTokens]
  /\ UNCHANGED <<keyVars, started, pipeVars, now, backend, cred, issued, mdVars, surfVars>>

\* lines 570-577: the generateContent request; urlopen raises or the body is read
generate_content(r) ==
  /\ run[r].pc = "generate"
  /\ \E ok \in BOOLEAN :
       run' = IF ok
                THEN [run EXCEPT ![r].pc = "extract", ![r].access_token = NoToken,
                                 ![r].generates = run[r].generates + 1]
                ELSE [Raise(r, "provider") EXCEPT ![r].generates = run[r].generates + 1]
  /\ UNCHANGED <<keyVars, started, pipeVars, credVars, mdVars, surfVars>>

\* a part of candidates[0].content.parts: the truth of p.get('thought') and of
\* p.get('thinking'), whether it has the key 'text', and the text
PartTexts == {<<"a">>, <<"b">>}
Parts ==
  [thought : BOOLEAN, thinking : BOOLEAN, has_text : {TRUE}, text : PartTexts]
    \cup [thought : BOOLEAN, thinking : BOOLEAN, has_text : {FALSE}, text : {<<>>}]

\* the response bodies: without candidates, or with the parts of candidates[0]
Bodies ==
  {NoBody} \cup
  {[candidates |-> TRUE, parts |-> ps] : ps \in SeqsUpTo(Parts, MaxParts)}

NoTextInResponse == <<"No text in response">>
NoResponseFromModel == <<"No response from model">>

\* line 588 with the test of 'thought' alone
IsThinking_thought_only(p) == p.thought

\* line 588: p.get('thought') or p.get('thinking')
IsThinking(p) == p.thought \/ p.thinking

\* lines 585-592: the texts appended to response_parts, in order
RECURSIVE response_parts(_)
response_parts(ps) ==
  IF ps = <<>> THEN <<>>
  ELSE LET p == Head(ps) IN
         IF IsThinking(p) THEN response_parts(Tail(ps))
         ELSE IF p.has_text THEN <<p.text>> \o response_parts(Tail(ps))
         ELSE response_parts(Tail(ps))

\* lines 579-613: the text returned for a response body
response_text(body) ==
  IF body.candidates
    THEN IF response_parts(body.parts) # <<>>
           THEN join(response_parts(body.parts))
           ELSE NoTextInResponse
    ELSE NoResponseFromModel

\* lines 579-613: _analyze_gauth returns the text extracted from the body
extract_response(r) ==
  /\ run[r].pc = "extract"
  /\ \E body \in Bodies :
       run' = [run EXCEPT ![r].pc = "show", ![r].body = body,
                          ![r].absent = ~body.candidates,
                          ![r].response = Str(response_text(body))]
  /\ UNCHANGED <<keyVars, started, pipeVars, credVars, mdVars, surfVars>>

\* line 638: self.window.root.after(0, show("Clue", response))
post_response(r) ==
  /\ run[r].pc = "show"
  /\ uiQueue' = Post("response", r)
  /\ run' = [run EXCEPT ![r].pc = "unlink", ![r].posts = Append(run[r].posts, "response")]
  /\ UNCHANGED <<keyVars, started, root, notifVisible, display, shown, tmpFiles,
                 credVars, mdVars, surfVars>>

\* line 641: os.unlink(image_path); it raises when the file is gone
unlink(r) ==
  /\ run[r].pc = "unlink"
  /\ \E ok \in BOOLEAN :
       IF ok
         THEN /\ tmpFiles' = tmpFiles \ {r}
              /\ run' = [run EXCEPT ![r].pc = "done", ![r].unlinks = run[r].unlinks + 1]
         ELSE /\ run' = Raise(r, "unlink")
              /\ UNCHANGED tmpFiles
  /\ UNCHANGED <<keyVars, started, root, uiQueue, notifVisible, display, shown,
                 credVars, mdVars, surfVars>>

\* lines 643-646 with a handler that calls analyze_image once more after a
\* provider error
except_retrying(r) ==
  /\ run[r].pc = "except"
  /\ IF run[r].err = "provider" /\ run[r].generates < 2
       THEN /\ run' = [run EXCEPT ![r].pc = "analyze", ![r].err = ""]
            /\ UNCHANGED uiQueue
       ELSE IF root
         THEN /\ uiQueue' = Post("error", r)
              /\ run' = [run EXCEPT ![r].pc = "done",
                                    ![r].posts = Append(run[r].posts, "error")]
         ELSE /\ run' = [run EXCEPT ![r].pc = "died"]
              /\ UNCHANGED uiQueue
  /\ UNCHANGED <<keyVars, started, root, notifVisible, display, shown, tmpFiles,
                 credVars, mdVars, surfVars>>

\* lines 643-646: except Exception: post show("Clue - Error", "Error: ...");
\* with root None the handler raises AttributeError and the thread dies
except(r) ==
  /\ run[r].pc = "except"
  /\ IF root
       THEN /\ uiQueue' = Post("error", r)
            /\ run' = [run EXCEPT ![r].pc = "done",
                                  ![r].posts = Append(run[r].posts, "error")]
       ELSE /\ run' = [run EXCEPT ![r].pc = "died"]
            /\ UNCHANGED uiQueue
  /\ UNCHANGED <<keyVars, started, root, notifVisible, display, shown, tmpFiles,
                 credVars, mdVars, surfVars>>

----------------------------------------------------------------------------
(* The UI context: ResponseWindow.run and the callbacks it runs *)

\* ResponseWindow.run: create the root window, then loop
window_run ==
  /\ ~root
  /\ root' = TRUE
  /\ UNCHANGED <<keyVars, started, run, uiQueue, notifVisible, display, shown, tmpFiles,
                 credVars, mdVars, surfVars>>

NoDisplay == [kind |-> "none", run |-> 0]

\* a method was called on a display surface, and whether it raised
Call(op) == [op |-> op, raised |-> FALSE]
NoCall == Call("none")

\* ResponseWindow.show_notification (lines 170-176) and NotificationWindow.show
\* (lines 63-98): create what is missing, deiconify the toast
show_notification ==
  /\ root' = TRUE
  /\ notification' = "window"
  /\ notifVisible' = TRUE
  /\ lastCall' = Call("show_notification")
  /\ UNCHANGED <<display, visible, shown>>

\* ResponseWindow.show (lines 141-168) without lines 147-148: the notification is
\* left as it is
show_keeps_notification(cb) ==
  /\ root' = TRUE
  /\ visible' = TRUE
  /\ display' = cb
  /\ shown' = [shown EXCEPT ![cb.run] = @ \cup {cb.kind}]
  /\ lastCall' = Call("show")
  /\ UNCHANGED <<notification, notifVisible>>

\* ResponseWindow.show (lines 141-168): create the root if missing, hide the
\* notification if there is one, deiconify the window and render the content
show(cb) ==
  /\ root' = TRUE
  /\ notifVisible' = IF notification = "window" THEN FALSE ELSE notifVisible
  /\ visible' = TRUE
  /\ display' = cb
  /\ shown' = [shown EXCEPT ![cb.run] = @ \cup {cb.kind}]
  /\ lastCall' = Call("show")
  /\ UNCHANGED notification

\* NotificationWindow.hide (lines 127-130) without the test of self.window:
\* withdraw on None raises AttributeError
hide_unguarded ==
  /\ notification # "none"
  /\ notifVisible' = FALSE
  /\ lastCall' = [op |-> "hide", raised |-> notification # "window"]
  /\ UNCHANGED <<root, notification, display, visible, shown>>

\* NotificationWindow.hide (lines 127-130): withdraw the toast if it exists
hide ==
  /\ notification # "none"
  /\ notifVisible' = IF notification = "window" THEN FALSE ELSE notifVisible
  /\ lastCall' = Call("hide")
  /\ UNCHANGED <<root, notification, display, visible, shown>>

\* ResponseWindow._hide (lines 316-319): withdraw the root if it exists
_hide ==
  /\ visible' = IF root THEN FALSE ELSE visible
  /\ lastCall' = Call("_hide")
  /\ UNCHANGED <<root, notification, notifVisible, display, shown>>

\* the main loop runs the oldest posted callback:
\* show_notification shows the toast; show hides it and fills the window
ui_callback ==
  /\ root
  /\ uiQueue # <<>>
  /\ LET cb == Head(uiQueue) IN
       IF cb.kind = "notify" THEN show_notification ELSE show(cb)
  /\ uiQueue' = Tail(uiQueue)
  /\ UNCHANGED <<keyVars, started, run, tmpFiles, credVars, mdVars>>

\* the wall clock advances
Tick ==
  /\ now < MaxTicks * MsPerSecond
  /\ now' = now + MsPerSecond
  /\ UNCHANGED <<keyVars, started, run, pipeVars, backend, cred, credFile, issued,
                 mdVars, surfVars>>


----------------------------------------------------------------------------
(* The renderer: ResponseWindow._render_markdown and _render_inline.       *)
(* A string is a sequence of one-character strings.                        *)

Star == "*"
\* the backquote character, written by name
Backquote == "BACKQUOTE"
Fence == <<Backquote, Backquote, Backquote>>
\* the bullet glyph U+2022, written by name
Bullet == "BULLET"
Digits == {"0", "1", "2", "3", "4", "5", "6", "7", "8", "9"}

\* s[a:b] of Python for 1-based inclusive bounds; empty when a > b
Slice(s, a, b) == IF a > b THEN <<>> ELSE SubSeq(s, a, b)

startswith(s, p) == Len(s) >= Len(p) /\ SubSeq(s, 1, Len(p)) = p
endswith(s, p) == Len(s) >= Len(p) /\ SubSeq(s, Len(s) - Len(p) + 1, Len(s)) = p

Min(S) == CHOOSE x \in S : \A y \in S : x <= y

\* \*\*.*?\*\* at p: the index of the last character matched, 0 for no match
MatchBold(t, p) ==
  IF p + 1 <= Len(t) /\ t[p] = Star /\ t[p + 1] = Star
    THEN LET Q == {q \in (p + 2)..(Len(t) - 1) : t[q] = Star /\ t[q + 1] = Star}
         IN IF Q = {} THEN 0
            ELSE IF \E k \in (p + 2)..(Min(Q) - 1) : t[k] = NL THEN 0
            ELSE Min(Q) + 1
    ELSE 0

\* \*.*?\* at p
MatchItalic(t, p) ==
  IF t[p] = Star
    THEN LET Q == {q \in (p + 1)..Len(t) : t[q] = Star}
         IN IF Q = {} THEN 0
            ELSE IF \E k \in (p + 1)..(Min(Q) - 1) : t[k] = NL THEN 0
            ELSE Min(Q)
    ELSE 0

\* a backquote, one or more characters that are not backquotes, a backquote, at p
MatchCode(t, p) ==
  IF t[p] = Backquote
    THEN LET Q == {q \in (p + 1)..Len(t) : t[q] = Backquote}
         IN IF Q = {} \/ Min(Q) = p + 1 THEN 0 ELSE Min(Q)
    ELSE 0

\* the alternation, first alternative that matches
MatchAt(t, p) ==
  IF MatchBold(t, p) # 0 THEN MatchBold(t, p)
  ELSE IF MatchItalic(t, p) # 0 THEN MatchItalic(t, p)
  ELSE MatchCode(t, p)

\* re.split(pattern, text) from position p on: text before a match, the match, ...
RECURSIVE re_split(_, _)
re_split(t, p) ==
  LET P == {q \in p..Len(t) : MatchAt(t, q) # 0} IN
    IF P = {} THEN <<Slice(t, p, Len(t))>>
    ELSE <<Slice(t, p, Min(P) - 1), SubSeq(t, Min(P), MatchAt(t, Min(P)))>>
           \o re_split(t, MatchAt(t, Min(P)) + 1)

Seg(text, tag) == [text |-> text, tag |-> tag]

\* lines 233-240: the tag of each part, by its first and last characters
InlinePart(part) ==
  IF startswith(part, <<Star, Star>>) /\ endswith(part, <<Star, Star>>)
    THEN Seg(Slice(part, 3, Len(part) - 2), "bold")
  ELSE IF startswith(part, <<Star>>) /\ endswith(part, <<Star>>)
    THEN Seg(Slice(part, 2, Len(part) - 1), "italic")
  ELSE IF startswith(part, <<Backquote>>) /\ endswith(part, <<Backquote>>)
    THEN Seg(Slice(part, 2, Len(part) - 1), "inline_code")
  ELSE Seg(part, "plain")

_render_inline(text) ==
  LET parts == re_split(text, 1) IN [k \in 1..Len(parts) |-> InlinePart(parts[k])]

\* re.match(r'^\d+\. ', line)
IsOrdered(line) ==
  \E k \in 1..Len(line) :
    /\ \A j \in 1..k : line[j] \in Digits
    /\ k + 2 <= Len(line)
    /\ line[k + 1] = "."
    /\ line[k + 2] = " "

\* lines 208-222 with the remainder of a header line passed to _render_inline
RenderLine_inline_in_headers(line) ==
  LET header(rest, tag) ==
        LET parts == _render_inline(rest \o <<NL>>) IN
          [k \in 1..Len(parts) |->
             IF parts[k].tag = "plain" THEN Seg(parts[k].text, tag) ELSE parts[k]]
  IN
  IF startswith(line, <<"#", "#", "#", " ">>)
    THEN header(Slice(line, 5, Len(line)), "h3")
  ELSE IF startswith(line, <<"#", "#", " ">>)
    THEN header(Slice(line, 4, Len(line)), "h2")
  ELSE IF startswith(line, <<"#", " ">>)
    THEN header(Slice(line, 3, Len(line)), "h1")
  ELSE IF startswith(line, <<"-", " ">>) \/ startswith(line, <<Star, " ">>)
    THEN _render_inline(<<" ", " ", Bullet, " ">> \o Slice(line, 3, Len(line)) \o <<NL>>)
  ELSE IF IsOrdered(line)
    THEN _render_inline(<<" ", " ">> \o line \o <<NL>>)
  ELSE _render_inline(line \o <<NL>>)

\* lines 208-222: one line outside a code block
RenderLine(line) ==
  IF startswith(line, <<"#", "#", "#", " ">>)
    THEN <<Seg(Slice(line, 5, Len(line)) \o <<NL>>, "h3")>>
  ELSE IF startswith(line, <<"#", "#", " ">>)
    THEN <<Seg(Slice(line, 4, Len(line)) \o <<NL>>, "h2")>>
  ELSE IF startswith(line, <<"#", " ">>)
    THEN <<Seg(Slice(line, 3, Len(line)) \o <<NL>>, "h1")>>
  ELSE IF startswith(line, <<"-", " ">>) \/ startswith(line, <<Star, " ">>)
    THEN _render_inline(<<" ", " ", Bullet, " ">> \o Slice(line, 3, Len(line)) \o <<NL>>)
  ELSE IF IsOrdered(line)
    THEN _render_inline(<<" ", " ">> \o line \o <<NL>>)
  ELSE _render_inline(line \o <<NL>>)

\* lines 186-224 without line 195: the buffer is not emptied at the closing fence
render_line_keeps_buffer ==
  /\ i <= Len(lines)
  /\ LET line == lines[i] IN
       IF startswith(line, Fence)
         THEN IF in_code_block
                THEN /\ segments' = Append(segments, Seg(join(code_buffer) \o <<NL>>, "code"))
                     /\ in_code_block' = FALSE
                     /\ UNCHANGED code_buffer
                ELSE /\ in_code_block' = TRUE
                     /\ UNCHANGED <<segments, code_buffer>>
       ELSE IF in_code_block
         THEN /\ code_buffer' = Append(code_buffer, line)
              /\ UNCHANGED <<segments, in_code_block>>
       ELSE /\ segments' = segments \o RenderLine(line)
            /\ UNCHANGED <<in_code_block, code_buffer>>
  /\ i' = i + 1
  /\ UNCHANGED <<lines, keyVars, started, run, pipeVars, credVars, surfVars>>

\* lines 186-224: one iteration of the loop of _render_markdown
render_line ==
  /\ i <= Len(lines)
  /\ LET line == lines[i] IN
       IF startswith(line, Fence)
         THEN IF in_code_block
                THEN /\ segments' = Append(segments, Seg(join(code_buffer) \o <<NL>>, "code"))
                     /\ code_buffer' = <<>>
                     /\ in_code_block' = FALSE
                ELSE /\ in_code_block' = TRUE
                     /\ UNCHANGED <<segments, code_buffer>>
       ELSE IF in_code_block
         THEN /\ code_buffer' = Append(code_buffer, line)
              /\ UNCHANGED <<segments, in_code_block>>
       ELSE /\ segments' = segments \o RenderLine(line)
            /\ UNCHANGED <<in_code_block, code_buffer>>
  /\ i' = i + 1
  /\ UNCHANGED <<lines, keyVars, started, run, pipeVars, credVars, surfVars>>


----------------------------------------------------------------------------
(* Initial states and the specifications *)

Backends == {"gemini", "ollama", "gauth"}

\* no key is down when the listener starts
InitKeys ==
  /\ held = {}
  /\ cmd_pressed = FALSE
  /\ shift_pressed = FALSE
  /\ lastKey = NoKey

\* ClueApp.__init__ and the start of ClueApp.run: no thread, no window yet
InitPipe ==
  /\ started = 0
  /\ run = [r \in Runs |-> IdleRun]
  /\ root = FALSE
  /\ uiQueue = <<>>
  /\ notifVisible = FALSE
  /\ display = NoDisplay
  /\ shown = [r \in Runs |-> {}]
  /\ tmpFiles = {}
  /\ notification = "none"
  /\ visible = FALSE
  /\ lastCall = NoCall

\* backends other than gauth load no credential
NoCred == [access_token |-> NoToken, expires_at |-> NoTime]

InitNoCred ==
  /\ now = 0
  /\ cred = NoCred
  /\ credFile = NoCred
  /\ issued = [t \in 0..MaxRuns |-> NoTime]

\* the credential loaded from credentials.json: token 0, with expires_at absent
\* (read as 0) or one second ahead
InitCred ==
  /\ now = 0
  /\ \E e \in {0, MsPerSecond} : cred = [access_token |-> 0, expires_at |-> e]
  /\ credFile = cred
  /\ issued = [t \in 0..MaxRuns |-> IF t = 0 THEN cred.expires_at ELSE NoTime]

\* the renderer before any response
InitNoMd ==
  /\ lines = <<>>
  /\ i = 1
  /\ in_code_block = FALSE
  /\ code_buffer = <<>>
  /\ segments = <<>>

(* Spec: the pipeline from the start of the listener, with a backend whose  *)
(* analyze is one request (gemini, ollama).                                 *)
Init ==
  /\ InitKeys /\ InitPipe /\ InitNoCred /\ InitNoMd
  /\ backend \in Backends \ {"gauth"}

Next ==
  \/ Trigger
  \/ \E r \in Runs : capture_screenshot(r)
  \/ \E r \in Runs : post_notification(r)
  \/ \E r \in Runs : analyze_image(r)
  \/ \E r \in Runs : post_response(r)
  \/ \E r \in Runs : unlink(r)
  \/ \E r \in Runs : except(r)
  \/ window_run
  \/ ui_callback

Spec == Init /\ [][Next]_vars

(* SpecAuth: the gauth backend. Every thread has captured its image and had *)
(* its notification shown, and is about to call analyze_image; the threads  *)
(* then run _analyze_gauth in any interleaving, up to its return or to the  *)
(* handler of its exception.                                                *)
InitAuth ==
  /\ InitKeys /\ InitCred /\ InitNoMd
  /\ backend = "gauth"
  /\ started = MaxRuns
  /\ run = [r \in Runs |-> [IdleRun EXCEPT !.pc = "analyze", !.image_path = TRUE,
                                           !.notified = TRUE, !.caller = "listener",
                                           !.captures = 1]]
  /\ root = TRUE
  /\ uiQueue = <<>>
  /\ notifVisible = TRUE
  /\ display = NoDisplay
  /\ shown = [r \in Runs |-> {}]
  /\ tmpFiles = Runs
  /\ notification = "window"
  /\ visible = FALSE
  /\ lastCall = Call("show_notification")

NextAuth ==
  \/ \E r \in Runs : analyze_image(r)
  \/ \E r \in Runs : refresh_check(r)
  \/ \E r \in Runs : refresh_request(r)
  \/ \E r \in Runs : set_access_token(r)
  \/ \E r \in Runs : set_expires_at(r)
  \/ \E r \in Runs : open_credentials(r)
  \/ \E r \in Runs : dump_credentials(r)
  \/ \E r \in Runs : generate_content(r)
  \/ \E r \in Runs : except(r)
  \/ Tick

SpecAuth == InitAuth /\ [][NextAuth]_vars

(* SpecRun: one run from the hotkey to its end, on any backend. The window  *)
(* exists; the runs started before it ended on a failed capture (mkstemp    *)
(* raised, no file created) and had their error displayed.                  *)
EndedOnCapture ==
  [IdleRun EXCEPT !.pc = "done", !.err = "capture", !.posts = <<"error">>,
                  !.caller = "listener", !.captures = 1]

InitLast ==
  /\ InitKeys /\ InitNoMd
  /\ backend \in Backends
  /\ IF backend = "gauth" THEN InitCred ELSE InitNoCred
  /\ started = MaxRuns - 1
  /\ run = [r \in Runs |-> IF r < MaxRuns THEN EndedOnCapture ELSE IdleRun]
  /\ root = TRUE
  /\ uiQueue = <<>>
  /\ notifVisible = FALSE
  /\ display = [kind |-> "error", run |-> MaxRuns - 1]
  /\ shown = [r \in Runs |-> IF r < MaxRuns THEN {"error"} ELSE {}]
  /\ tmpFiles = {}
  /\ notification = "none"
  /\ visible = TRUE
  /\ lastCall = Call("show")

NextRun ==
  \/ Trigger
  \/ \E r \in Runs : capture_screenshot(r)
  \/ \E r \in Runs : post_notification(r)
  \/ \E r \in Runs : analyze_image(r)
  \/ \E r \in Runs : refresh_check(r)
  \/ \E r \in Runs : refresh_request(r)
  \/ \E r \in Runs : set_access_token(r)
  \/ \E r \in Runs : set_expires_at(r)
  \/ \E r \in Runs : open_credentials(r)
  \/ \E r \in Runs : dump_credentials(r)
  \/ \E r \in Runs : generate_content(r)
  \/ \E r \in Runs : extract_response(r)
  \/ \E r \in Runs : post_response(r)
  \/ \E r \in Runs : unlink(r)
  \/ \E r \in Runs : except(r)
  \/ ui_callback
  \/ Tick

SpecRun == InitLast /\ [][NextRun]_vars

(* SpecKeys: the key listener *)
InitListener ==
  /\ InitKeys /\ InitPipe /\ InitNoCred /\ InitNoMd
  /\ backend \in Backends \ {"gauth"}

NextKeys == KeyDown \/ KeyUp

SpecKeys == InitListener /\ [][NextKeys]_vars

(* SpecHide: the methods of the two display surfaces, called on the UI      *)
(* context in any order, from the state in which no window exists.          *)
\* NotificationWindow.__init__ (lines 58-61): the object exists, its window does not
new_notification ==
  /\ notification = "none"
  /\ notification' = "new"
  /\ lastCall' = Call("new")
  /\ UNCHANGED <<root, notifVisible, display, visible, shown>>

\* the frame of a call on a display surface
SurfaceCall(method) ==
  /\ method
  /\ UNCHANGED <<keyVars, started, run, uiQueue, tmpFiles, credVars, mdVars>>

NextHide ==
  \/ SurfaceCall(new_notification)
  \/ SurfaceCall(show_notification)
  \/ \E r \in Runs, kind \in {"response", "error"} :
       SurfaceCall(show([kind |-> kind, run |-> r]))
  \/ SurfaceCall(hide)
  \/ SurfaceCall(_hide)

SpecHide == InitListener /\ [][NextHide]_vars

(* SpecMd: the renderer on one response *)
\* "# Title"
TitleLine == <<"#", " ", "T", "i", "t", "l", "e">>
\* "**bold** and *italic* and" followed by code between backquotes
SpansLine ==
  <<Star, Star, "b", "o", "l", "d", Star, Star, " ", "a", "n", "d", " ",
    Star, "i", "t", "a", "l", "i", "c", Star, " ", "a", "n", "d", " ",
    Backquote, "c", "o", "d", "e", Backquote>>
\* "- item"
ItemLine == <<"-", " ", "i", "t", "e", "m">>
\* two code spans with one star between them
StarLine == <<Backquote, "c", Backquote, Star, Backquote, "c", Backquote>>

\* lines a response is made of
LinePool ==
  { <<>>,
    <<"a">>,
    Fence,
    Fence \o <<"p", "y">>,
    <<"#", " ", "T">>,
    <<"-", " ", "a">>,
    <<"1", ".", " ", "a">>,
    <<Star, Star, "b", Star, Star>>,
    <<Backquote, "c", Backquote>>,
    TitleLine,
    SpansLine,
    ItemLine,
    StarLine,
    <<"#", "#", " ", Star, "b", Star>>,
    <<"#", "#", "#", " ", "-", " ", "a">> }

\* show(title, content): content.split('\n') is never empty
InitMd ==
  /\ lines \in SeqsUpTo(LinePool, MaxLines) \ {<<>>}
  /\ i = 1
  /\ in_code_block = FALSE
  /\ code_buffer = <<>>
  /\ segments = <<>>

NextMd == render_line

\* the application as constructed, with one response handed to show
InitShow ==
  /\ InitKeys /\ InitPipe /\ InitNoCred /\ InitMd
  /\ backend \in Backends \ {"gauth"}

SpecMd == InitShow /\ [][NextMd]_vars

----------------------------------------------------------------------------
(* Properties of the key listener (SpecKeys) *)

\* a modifier is held when its left or its right key is down
ModifierHeld(K) == held \cap K # {}

\* C1: a key-down of the action key calls on_hotkey if and only if both
\* modifiers (each by its left or right key) are held at that moment.
C1_TriggerIffBothHeld ==
  (lastKey.kind = "down" /\ lastKey.key = "f")
    => (lastKey.fired <=> (ModifierHeld(CmdKeys) /\ ModifierHeld(ShiftKeys)))

\* the key event that a step of the listener delivers
Event == lastKey'

\* a flag changes only on an event of its modifier, to TRUE on a key-down and to
\* FALSE on a key-up; a key-down of a modifier whose flag is set changes no flag;
\* an event of any other key, with or without a char attribute, changes no flag;
\* no event raises
C19_KeyStep ==
  /\ cmd_pressed' # cmd_pressed
       => (Event.key \in CmdKeys /\ (cmd_pressed' <=> Event.kind = "down"))
  /\ shift_pressed' # shift_pressed
       => (Event.key \in ShiftKeys /\ (shift_pressed' <=> Event.kind = "down"))
  /\ (Event.kind = "down" /\ Event.key \in CmdKeys /\ cmd_pressed)
       => UNCHANGED <<cmd_pressed, shift_pressed>>
  /\ (Event.kind = "down" /\ Event.key \in ShiftKeys /\ shift_pressed)
       => UNCHANGED <<cmd_pressed, shift_pressed>>
  /\ Event.key \notin CmdKeys \cup ShiftKeys => UNCHANGED <<cmd_pressed, shift_pressed>>
  /\ Event.kind \in {"none", "down", "up"}

\* C19: a key-down on a modifier already recorded as held leaves the state
\* unchanged; a key-down or key-up of the action key or of any unrelated key,
\* a key without a char attribute included, changes neither modifier flag and
\* raises no error; a modifier flag changes only on a down or up event of that
\* modifier.
C19_FrameAndIdempotence == [][C19_KeyStep]_vars

\* a key without a char attribute went down while both flags were set
C19_Witness ==
  /\ lastKey = [kind |-> "down", key |-> "esc", fired |-> FALSE]
  /\ cmd_pressed /\ shift_pressed
  /\ held = {"cmd", "cmd_r", "shift", "esc"}

----------------------------------------------------------------------------
(* Properties of the pipeline (Spec) *)

\* the thread has returned from process(), or died in its exception handler
Ended(r) == run[r].pc \in {"done", "died"}

\* no terminal display of thread r waits in the UI queue
Drained(r) ==
  \A k \in 1..Len(uiQueue) : ~(uiQueue[k].run = r /\ uiQueue[k].kind # "notify")

\* C2: a run whose capture succeeded and that ended by displaying a response
\* or an error has deleted its capture artifact exactly once.
C2_ArtifactDeletedOnce ==
  \A r \in Runs :
    (Ended(r) /\ run[r].image_path /\ run[r].posts # <<>>) => run[r].unlinks = 1

\* the runs between their start and their end
InFlight == {r \in Runs : run[r].pc \notin {"idle", "done", "died"}}

\* C6: at most one pipeline run is in flight at any time.
C6_AtMostOneInFlight == Cardinality(InFlight) <= 1

\* C7: every run ends with its response or its error shown: once a run has
\* ended and none of its displays waits in the UI queue, one has been shown.
C7_EveryRunDisplays ==
  \A r \in Runs : (Ended(r) /\ Drained(r)) => shown[r] # {}

\* C8: a run whose capture failed sent no analyze request, deleted nothing,
\* posted no notification and ended by posting the display of its error.
C8_CaptureFailure ==
  \A r \in Runs :
    (Ended(r) /\ run[r].err = "capture")
      => /\ run[r].generates = 0
         /\ run[r].unlinks = 0
         /\ ~run[r].notified
         /\ run[r].posts = <<"error">>

\* C9: a capture_screenshot that fails leaves the set of temporary files as
\* it was before the call.
C9_FailedCaptureLeavesNoFile ==
  [][\A r \in Runs :
       (run[r].pc = "capture" /\ run'[r].err = "capture") => tmpFiles' = tmpFiles]_vars

\* C15: the hotkey callback and every display call execute only on the UI
\* context; a background run touches the display only by posting a callback.
\* Here: every run was started by an on_hotkey call made on the UI context, and
\* what the window shows for a run was posted by that run.
C15_ContextConfinement ==
  /\ \A r \in Runs : run[r].pc # "idle" => run[r].caller = "ui"
  /\ \A r \in Runs : \A kind \in shown[r] :
       \E k \in 1..Len(run[r].posts) : run[r].posts[k] = kind

\* every started run has finished
AllFinished == \A r \in Runs : r <= started => Ended(r)

\* with every started run finished and the UI queue drained, the notification
\* is hidden
C23_HiddenWhenIdle == (AllFinished /\ uiQueue = <<>>) => ~notifVisible

\* the queue is first in, first out: a post is appended, the UI context takes the
\* head, and a response or error display taken from it hides the notification
C23_QueueStep ==
  /\ Len(uiQueue') > Len(uiQueue) =>
        /\ Len(uiQueue') = Len(uiQueue) + 1
        /\ SubSeq(uiQueue', 1, Len(uiQueue)) = uiQueue
  /\ Len(uiQueue') = Len(uiQueue) => uiQueue' = uiQueue
  /\ Len(uiQueue') < Len(uiQueue) =>
        /\ uiQueue' = Tail(uiQueue)
        /\ IF Head(uiQueue).kind = "notify"
             THEN notifVisible' /\ display' = display
             ELSE ~notifVisible' /\ display' = Head(uiQueue)

\* C23: the notification is never left showing: UI callbacks are executed in
\* the order posted, every response or error display hides the notification,
\* and so in any state where all started runs have finished and the UI queue is
\* drained the notification is hidden, for any interleaving of concurrent runs.
C23_NotificationNotLeft == []C23_HiddenWhenIdle /\ [][C23_QueueStep]_vars

\* every run was started, posted its notification and has finished, the toast
\* was shown and is hidden again, the queue is empty
C23_Witness ==
  /\ started = MaxRuns
  /\ \A r \in Runs : Ended(r) /\ run[r].notified /\ shown[r] # {}
  /\ uiQueue = <<>>
  /\ notification = "window"
  /\ ~notifVisible

----------------------------------------------------------------------------
(* Properties of the gauth backend (SpecAuth) *)

\* the request of _analyze_gauth is about to be sent, or has been
AtGenerate(r) == run[r].pc = "generate" \/ run[r].generates > 0

\* what follows the comparison at line 477: a call that found the token expired
\* has issued one refresh request, and has written the credential file before its
\* generateContent request; a call that found it valid has issued none
C3_AfterCheck ==
  \A r \in Runs :
    /\ run[r].checked = "" => (run[r].refreshes = 0 /\ ~AtGenerate(r))
    /\ run[r].checked = "valid" => (run[r].refreshes = 0 /\ ~run[r].wrote)
    /\ (run[r].checked = "expired" /\ run[r].pc # "refresh_request")
         => run[r].refreshes = 1
    /\ (run[r].checked = "expired" /\ AtGenerate(r)) => run[r].wrote

\* the step from line 477: the token in memory is returned exactly when the
\* clock is before expires_at, the refresh request is next otherwise
C3_CheckStep ==
  \A r \in Runs :
    (run[r].pc = "refresh" /\ run'[r].pc # "refresh")
      => IF now < cred.expires_at
           THEN /\ run'[r].pc = "generate"
                /\ run'[r].checked = "valid"
                /\ run'[r].access_token = cred.access_token
           ELSE /\ run'[r].pc = "refresh_request"
                /\ run'[r].checked = "expired"

\* a call that refreshed goes on to its request having written the credential in
\* memory to the credential file (over what another writer left there, if any)
C3_WriteStep ==
  \A r \in Runs :
    (run[r].checked = "expired" /\ run[r].pc # "generate" /\ run'[r].pc = "generate")
      => (credFile' \in {cred', Garbled} /\ credFile' # Truncated)

\* the comparison at line 477 finds what held when the call began
C3_CheckAgreesWithCall ==
  \A r \in Runs :
    (run[r].pc = "refresh" /\ run'[r].pc # "refresh")
      => (run[r].expiredAtCall <=> run'[r].checked = "expired")

\* C3 (as amended): per analyze call on the gauth backend, if expires_at is not
\* after the time that _refresh_gauth_token samples (or is absent), exactly one
\* refresh request is issued and the credential is written to the credential file
\* before the generateContent request is issued; if it is after that time, no
\* refresh request is issued and the access token in memory is used.
C3_RefreshPerCheck == []C3_AfterCheck /\ [][C3_CheckStep /\ C3_WriteStep]_vars

\* C3 (as stated): the same with expires_at taken when the analyze call starts.
C3_RefreshPerCall == C3_RefreshPerCheck /\ [][C3_CheckAgreesWithCall]_vars

\* one call refreshed and then sent its request, another used the valid token
C3_Witness ==
  \E r, q \in Runs :
    /\ run[r].checked = "expired" /\ run[r].wrote /\ run[r].generates = 1
    /\ run[q].checked = "valid" /\ run[q].generates = 1

\* some refresh has returned
RefreshCompleted == \E r \in Runs : run[r].wrote

\* no thread is between the assignments of lines 506 and 507
NoHalfUpdate == \A r \in Runs : run[r].pc # "set_expiry"

\* C4: once a refresh has completed, expires_at in memory is the expiry computed
\* for the access token in memory (both come from the same refresh response);
\* read here at the states in which no thread is between the two assignments.
C4_ExpiryOfHeldToken ==
  (RefreshCompleted /\ NoHalfUpdate) => cred.expires_at = issued[cred.access_token]

\* the refresh request of thread r failed: no answer or an error status
\* ("auth"), or an answer without access_token ("keyerror")
RefreshFailed(r) == run[r].err \in {"auth", "keyerror"}

\* a call whose refresh failed sent no generateContent request and no second
\* refresh request, wrote nothing to the credential or the file, and its thread
\* ends with the display of the error posted
C5_Aborted ==
  \A r \in Runs :
    RefreshFailed(r)
      => /\ run[r].generates = 0
         /\ run[r].refreshes = 1
         /\ ~run[r].wrote
         /\ cred.access_token # r
         /\ credFile.access_token # r
         /\ run[r].pc \in {"except", "done"}
         /\ run[r].pc = "done"
              => /\ run[r].posts = <<"error">>
                 /\ \E k \in 1..Len(uiQueue) : uiQueue[k] = [kind |-> "error", run |-> r]

\* the step on which the refresh fails changes neither the credential nor the file
C5_FailingStep ==
  \A r \in Runs :
    (~RefreshFailed(r) /\ run'[r].err \in {"auth", "keyerror"})
      => (cred' = cred /\ credFile' = credFile)

\* C5: when the token refresh fails, the analyze call is aborted: no
\* generateContent request, no second refresh, the credential in memory and the
\* credential file unchanged, and the run ends by displaying the error.
C5_RefreshFailureAborts == []C5_Aborted /\ [][C5_FailingStep]_vars

\* one thread ended on a failed request, another on an answer without access_token
C5_Witness ==
  \E r, q \in Runs :
    /\ run[r].err = "auth" /\ run[r].pc = "done"
    /\ run[q].err = "keyerror" /\ run[q].pc = "done"

\* a thread is between the token request and the return of its refresh
Refreshing(r) == run[r].pc \in {"refresh_request", "set_token", "set_expiry", "open_file", "dump"}

\* the file is whole and parsable, and agrees with memory when no refresh is under way
C21_Persisted ==
  /\ credFile \notin {Truncated, Garbled}
  /\ (\A r \in Runs : ~Refreshing(r)) => credFile = cred

\* a refresh returns: the file then holds the in-memory credential
C21_ReturnStep ==
  \A r \in Runs :
    (run[r].pc = "dump" /\ run'[r].pc = "generate") => credFile' = cred'

\* C21: the persisted credential matches memory: after every successful refresh
\* returns, and in every quiescent state after concurrent runs have finished
\* refreshing, the credential file is a complete, parsable credential whose
\* access_token and expires_at equal those in memory; no state is observable in
\* which the file is truncated or a mix of two writers' output.
C21_PersistedMatchesMemory == []C21_Persisted /\ [][C21_ReturnStep]_vars

----------------------------------------------------------------------------
(* Properties of one run (SpecRun) *)

\* a part that is an answer part: not flagged thought or thinking, with a text
IsAnswer(p) == ~(p.thought \/ p.thinking) /\ p.has_text

\* the texts of the answer parts, in the order of the parts
AnswerTexts(ps) ==
  LET answers == SelectSeq(ps, IsAnswer) IN [k \in 1..Len(answers) |-> answers[k].text]

\* the text of a flagged part that no answer part has
ThinkingOnly(ps) ==
  {ps[k].text : k \in {j \in 1..Len(ps) : ~IsAnswer(ps[j]) /\ ps[j].has_text}}
    \ {ps[k].text : k \in {j \in 1..Len(ps) : IsAnswer(ps[j])}}

\* C13: for any list of parts in candidates[0], the text that analyze returns is
\* the newline-join, in the original order, of the texts of exactly the parts not
\* flagged thought or thinking; the text of a flagged part never appears in it;
\* with candidates and no such text, a fixed sentinel is returned, not an error.
C13_AnswerExtraction ==
  \A r \in Runs :
    run[r].body.candidates
      => /\ run[r].response =
              IF AnswerTexts(run[r].body.parts) = <<>>
                THEN Str(NoTextInResponse)
                ELSE Str(join(AnswerTexts(run[r].body.parts)))
         /\ \A t \in ThinkingOnly(run[r].body.parts) :
              \A k \in 1..Len(run[r].response.text) : <<run[r].response.text[k]>> # t
         /\ run[r].pc = "show" => run[r].err = ""

\* a thought part and an answer part: the answer alone was returned and displayed
C13_Witness ==
  \E r \in Runs :
    /\ run[r].body.parts =
         << [thought |-> FALSE, thinking |-> TRUE, has_text |-> TRUE, text |-> <<"a">>],
            [thought |-> FALSE, thinking |-> FALSE, has_text |-> TRUE, text |-> <<"b">>] >>
    /\ run[r].response = Str(<<"b">>)
    /\ "response" \in shown[r]

\* C14: an absent completion is an error: when the provider answers with an
\* empty completion (key-auth backends) or without candidates (OAuth backend),
\* analyze fails with a provider error and the run ends by displaying the error,
\* not a response.
C14_AbsentCompletionIsError ==
  \A r \in Runs :
    (run[r].absent /\ backend \in {"gemini", "gauth"})
      => /\ run[r].err = "provider"
         /\ \A k \in 1..Len(run[r].posts) : run[r].posts[k] # "response"
         /\ Ended(r) => run[r].posts = <<"error">>

\* C16: no retries: within one run capture_screenshot is called at most once,
\* at most one refresh request and at most one analyze request are issued,
\* whichever of them fail.
C16_NoRetries ==
  \A r \in Runs :
    /\ run[r].captures <= 1
    /\ run[r].refreshes <= 1
    /\ run[r].generates <= 1

\* a run that refreshed the token, whose analyze request failed, and that ended
C16_Witness ==
  \E r \in Runs :
    /\ run[r].pc = "done" /\ run[r].err = "provider"
    /\ run[r].captures = 1 /\ run[r].refreshes = 1 /\ run[r].generates = 1

\* the analyze call of run r has started
AnalyzeStarted(r) ==
  \/ run[r].pc \in {"refresh", "refresh_request", "set_token", "set_expiry",
                    "open_file", "dump", "generate", "extract", "show", "unlink"}
  \/ run[r].refreshes > 0 \/ run[r].generates > 0 \/ run[r].checked # ""

\* capture before notification, notification before analyze
C18_Order ==
  \A r \in Runs :
    /\ run[r].notified => (run[r].captures = 1 /\ run[r].image_path)
    /\ AnalyzeStarted(r) => run[r].notified
    /\ run[r].unlinks > 0 => run[r].posts # <<>>

\* the response display is posted only once analyze has returned without error
C18_ResponseStep ==
  \A r \in Runs :
    (run'[r].posts # run[r].posts /\ run'[r].posts = Append(run[r].posts, "response"))
      => /\ run[r].pc = "show" /\ run[r].err = ""
         /\ run[r].response # Unset
         /\ run[r].generates = 1
         /\ run[r].posts = <<>>

\* after the error transition of a run none of its steps occurs, but the post
\* of the error display
C18_ErrorStep ==
  \A r \in Runs :
    run[r].err # ""
      => /\ run'[r].err = run[r].err
         /\ run'[r].captures = run[r].captures
         /\ run'[r].notified = run[r].notified
         /\ run'[r].refreshes = run[r].refreshes
         /\ run'[r].generates = run[r].generates
         /\ run'[r].unlinks = run[r].unlinks
         /\ run'[r].posts \in {run[r].posts, Append(run[r].posts, "error")}
         /\ run'[r].pc \in {"except", "done", "died"}

\* C18: in every run, capture completes before the "Analyzing..." notification
\* is posted, the notification is posted before the analyze call starts, and
\* the response display is posted only after analyze has returned successfully;
\* after an error in any of these steps none of the later steps of the run occurs.
C18_StepOrder == []C18_Order /\ [][C18_ResponseStep /\ C18_ErrorStep]_vars

\* a run that went through every step, and whose displays were shown
C18_Witness ==
  \E r \in Runs :
    /\ run[r].pc = "done" /\ run[r].err = ""
    /\ run[r].posts = <<"response">> /\ run[r].unlinks = 1
    /\ run[r].refreshes = 1 /\ run[r].generates = 1
    /\ shown[r] = {"response"}

\* C22: exactly one final display per run: every pipeline run posts exactly one
\* terminal display call to the UI context, the response or an error message,
\* never both and never neither; a failure of the artifact deletion after the
\* response has been posted does not cause an error display as well.
C22_OneFinalDisplay ==
  \A r \in Runs :
    /\ Len(run[r].posts) <= 1
    /\ Ended(r) => Len(run[r].posts) = 1
    /\ run[r].err = "unlink" => (Ended(r) => run[r].posts = <<"response">>)

----------------------------------------------------------------------------
(* Properties of the display surfaces (SpecHide) *)

surfaces == <<root, notification, notifVisible, display, visible, shown>>

\* the notification surface is hidden, or its window was never created
NotificationHidden == notification # "window" \/ ~notifVisible
\* the response surface is hidden, or its window was never created
ResponseHidden == ~root \/ ~visible

\* a surface is hidden after hide, and no call raises
C17_Hidden ==
  /\ lastCall.op = "hide" => NotificationHidden
  /\ lastCall.op = "_hide" => ResponseHidden
  /\ ~lastCall.raised

\* hide on a surface that is hidden, or has no window yet, changes no state
C17_NoOp ==
  /\ (lastCall'.op = "hide" /\ NotificationHidden) => UNCHANGED surfaces
  /\ (lastCall'.op = "_hide" /\ ResponseHidden) => UNCHANGED surfaces

\* C17: hide is idempotent and total: calling hide on the notification surface
\* or on the response surface when it is hidden, or before its window has been
\* created, changes no state and raises no error; hide after hide leaves the
\* state that hide left.
C17_HideIdempotent == []C17_Hidden /\ [][C17_NoOp]_vars

\* hide was called on a notification whose window was never created, while
\* the response window was showing
C17_Witness ==
  /\ lastCall = Call("hide")
  /\ notification = "new"
  /\ root /\ visible

----------------------------------------------------------------------------
(* Properties of the renderer (SpecMd) *)

\* _render_markdown has returned
Rendered == i > Len(lines)

\* C10: at the end of an input whose last opening fence is never closed, the
\* lines buffered after that fence (here: at least one of them not empty) have
\* been emitted as one code segment.
C10_UnterminatedFenceFlushed ==
  (Rendered /\ in_code_block /\ \E k \in 1..Len(code_buffer) : code_buffer[k] # <<>>)
    => /\ segments # <<>>
       /\ segments[Len(segments)] = Seg(join(code_buffer) \o <<NL>>, "code")

\* the segments that a step appends
Added == SubSeq(segments', Len(segments) + 1, Len(segments'))

\* a step of the loop on a line outside a fenced block
OutsideStep == i' = i + 1 /\ ~in_code_block /\ ~startswith(lines[i], Fence)

HeaderLevel(line) ==
  IF startswith(line, <<"#", "#", "#", " ">>) THEN 3
  ELSE IF startswith(line, <<"#", "#", " ">>) THEN 2
  ELSE IF startswith(line, <<"#", " ">>) THEN 1
  ELSE 0

HeaderTag(n) == IF n = 3 THEN "h3" ELSE IF n = 2 THEN "h2" ELSE "h1"

StyledTags == {"bold", "italic", "inline_code"}

\* the source text of a segment: its text between the markers of its tag
Marked(seg) ==
  IF seg.tag = "bold" THEN <<Star, Star>> \o seg.text \o <<Star, Star>>
  ELSE IF seg.tag = "italic" THEN <<Star>> \o seg.text \o <<Star>>
  ELSE IF seg.tag = "inline_code" THEN <<Backquote>> \o seg.text \o <<Backquote>>
  ELSE seg.text

RECURSIVE Source(_)
Source(segs) == IF segs = <<>> THEN <<>> ELSE Marked(Head(segs)) \o Source(Tail(segs))

\* plain, styled, plain, ..., plain
Alternating(segs) ==
  /\ Len(segs) % 2 = 1
  /\ \A k \in 1..Len(segs) :
       IF k % 2 = 1 THEN segs[k].tag = "plain" ELSE segs[k].tag \in StyledTags

\* the text of a line that is not a header: a bullet glyph for "- " and "* ",
\* two spaces before an ordered item
Displayed(line) ==
  IF startswith(line, <<"-", " ">>) \/ startswith(line, <<Star, " ">>)
    THEN <<" ", " ", Bullet, " ">> \o Slice(line, 3, Len(line)) \o <<NL>>
  ELSE IF IsOrdered(line) THEN <<" ", " ">> \o line \o <<NL>>
  ELSE line \o <<NL>>

\* every line appends its segments after those of the lines before it: a header
\* line one header segment, any other line alternating plain and styled segments
\* that spell the line in order
C11_LineStep ==
  OutsideStep =>
    /\ segments' = segments \o Added
    /\ IF HeaderLevel(lines[i]) # 0
         THEN /\ Len(Added) = 1
              /\ Added[1].tag = HeaderTag(HeaderLevel(lines[i]))
         ELSE /\ Alternating(Added)
              /\ Source(Added) = Displayed(lines[i])

\* a segment without its line terminator
Chomp(seg) ==
  IF endswith(seg.text, <<NL>>)
    THEN Seg(Slice(seg.text, 1, Len(seg.text) - 1), seg.tag)
    ELSE seg

\* what the three lines are to yield
ExampleSegments ==
  << Seg(<<"T", "i", "t", "l", "e">>, "h1"),
     Seg(<<>>, "plain"),
     Seg(<<"b", "o", "l", "d">>, "bold"),
     Seg(<<" ", "a", "n", "d", " ">>, "plain"),
     Seg(<<"i", "t", "a", "l", "i", "c">>, "italic"),
     Seg(<<" ", "a", "n", "d", " ">>, "plain"),
     Seg(<<"c", "o", "d", "e">>, "inline_code"),
     Seg(<<>>, "plain"),
     Seg(<<" ", " ", Bullet, " ", "i", "t", "e", "m">>, "plain") >>

C11_Example ==
  (Rendered /\ lines = <<TitleLine, SpansLine, ItemLine>>)
    => [k \in 1..Len(segments) |-> Chomp(segments[k])] = ExampleSegments

\* C11: segments are emitted in the order of the input lines with exact tag and
\* text; a header line yields one header segment and any other line is split
\* into alternating plain and styled segments in textual order, so that the
\* three lines "# Title", the line of bold, italic and code spans, and "- item"
\* yield h1 Title, plain, bold, plain, italic, plain, inline_code, plain, plain.
C11_SegmentSequence == []C11_Example /\ [][C11_LineStep]_vars

\* a step of the loop
LoopStep == i' = i + 1

\* the lines read so far, from the one after position o on
Since(o) == Slice(lines, o + 1, i - 1)

\* inside a block the buffer holds, verbatim and in order, the lines read since
\* the opening fence; outside a block nothing is buffered
C12_Buffered ==
  IF in_code_block
    THEN \E o \in 1..(i - 1) :
           /\ startswith(lines[o], Fence)
           /\ \A k \in (o + 1)..(i - 1) : ~startswith(lines[k], Fence)
           /\ code_buffer = Since(o)
    ELSE code_buffer = <<>>

\* a line inside a block yields no segment; the closing fence yields one code
\* segment, the buffered lines joined by newlines; the opening fence yields none
C12_BlockStep ==
  LoopStep =>
    /\ (in_code_block /\ in_code_block') => segments' = segments
    /\ (in_code_block /\ ~in_code_block')
         => /\ segments' = segments \o Added
            /\ Len(Added) = 1
            /\ Chomp(Added[1]) = Seg(join(code_buffer), "code")
    /\ (~in_code_block /\ in_code_block') => segments' = segments

\* the state is toggled by the lines that start with a fence, whatever follows it
C12_ToggleOnPrefix ==
  LoopStep => ((in_code_block' # in_code_block) <=> startswith(lines[i], Fence))

\* the state is toggled by the lines that are a fence and nothing else
C12_ToggleOnFenceOnly ==
  LoopStep => ((in_code_block' # in_code_block) <=> lines[i] = Fence)

\* C12 (as amended): the "inside fenced code block" state is toggled by exactly
\* those lines that start with a triple-backquote fence; every line between an
\* opening and a closing fence is buffered verbatim and the buffered lines are
\* emitted as exactly one code segment, newline-joined, without the fence lines.
C12_FenceState == []C12_Buffered /\ [][C12_BlockStep /\ C12_ToggleOnPrefix]_vars

\* C12 (as stated): the same with the state toggled by exactly those lines that
\* consist solely of a triple-backquote fence.
C12_FenceStateSolely == []C12_Buffered /\ [][C12_BlockStep /\ C12_ToggleOnFenceOnly]_vars

\* a block opened by a fence followed by a language name, one line, a closing fence
C12_Witness ==
  /\ Rendered
  /\ lines = <<Fence \o <<"p", "y">>, <<"#", " ", "T">>, Fence>>
  /\ segments = <<Seg(<<"#", " ", "T", NL>>, "code")>>

\* the step of a header line outside a fence
C20_HeaderLine ==
  (OutsideStep /\ HeaderLevel(lines[i]) # 0)
    => /\ segments' = segments \o Added
       /\ Len(Added) = 1
       /\ Chomp(Added[1]) =
            Seg(Slice(lines[i], HeaderLevel(lines[i]) + 2, Len(lines[i])),
                HeaderTag(HeaderLevel(lines[i])))

\* C20: outside a fence, a line with a header prefix ("### ", "## ", "# ", in
\* that order) yields exactly one segment, tagged h3, h2 or h1, whose text is the
\* whole remainder of the line; bold, italic and code markers in the remainder
\* stay literal text, and the header reading comes before the bullet, the
\* ordered-item and the plain reading of the line.
C20_HeaderLines == [][C20_HeaderLine]_vars

\* rendered: an h2 line holding an italic span, an h3 line that reads as a bullet
\* after its prefix, and an h1 line
C20_Witness ==
  /\ Rendered
  /\ lines = << <<"#", "#", " ", Star, "b", Star>>,
                <<"#", "#", "#", " ", "-", " ", "a">>,
                <<"#", " ", "T">> >>
  /\ segments = << Seg(<<Star, "b", Star, NL>>, "h2"),
                   Seg(<<"-", " ", "a", NL>>, "h3"),
                   Seg(<<"T", NL>>, "h1") >>

\* the text of a matched span between its delimiters: two stars on each side when
\* the first alternative matched, one character on each side otherwise
SpanText(part) ==
  IF MatchBold(part, 1) = Len(part)
    THEN Slice(part, 3, Len(part) - 2)
    ELSE Slice(part, 2, Len(part) - 1)

\* the line with the delimiters of its matched spans deleted: in the parts of
\* re.split the matched spans are those at the even positions
RECURSIVE Kept(_, _)
Kept(parts, k) ==
  IF k > Len(parts) THEN <<>>
  ELSE (IF k % 2 = 1 THEN parts[k] ELSE SpanText(parts[k])) \o Kept(parts, k + 1)

\* the texts of the segments, concatenated
RECURSIVE Texts(_)
Texts(segs) == IF segs = <<>> THEN <<>> ELSE Head(segs).text \o Texts(Tail(segs))

\* a line given to _render_inline: the text outside the matched spans is emitted
\* as it is in plain segments, and nothing but the delimiters of the spans is lost
C24_InlineStep ==
  (OutsideStep /\ HeaderLevel(lines[i]) = 0) =>
    LET parts == re_split(Displayed(lines[i]), 1) IN
      /\ Len(Added) = Len(parts)
      /\ \A k \in 1..Len(parts) : k % 2 = 1 => Added[k] = Seg(parts[k], "plain")
      /\ Texts(Added) = Kept(parts, 1)

\* C24: inline formatting preserves unmatched text: every character of a line
\* that is not part of a matched bold, italic or code span is emitted unchanged
\* in a plain segment and only the delimiters of matched spans are removed; the
\* concatenation of the emitted texts is the line with exactly those delimiters
\* deleted, so a lone star or backquote between two matched spans is emitted as
\* plain text.
C24_UnmatchedTextPreserved == [][C24_InlineStep]_vars

====
